---- MODULE Spec2Model ----
(***************************************************************************)
(* Model of the PIVOT / UNPIVOT rewrite of                                 *)
(* src/planner/binder/tableref/bind_pivot.cpp: Binder::Bind(PivotRef &),   *)
(* Binder::BindPivot, Binder::BindUnpivot, ConstructPivots,                *)
(* ExtractPivotExpressions and the four PivotStage functions.              *)
(*                                                                         *)
(* One behaviour is one call of Binder::Bind on one declaration.  The      *)
(* declaration, the column list of its source and the content of the       *)
(* enclosing binder's registry are chosen in Init; the binder              *)
(* infrastructure that is not part of the file (binding a node, expanding  *)
(* a star, the catalog) is modelled by its contract, a call of it either   *)
(* succeeding or throwing.                                                 *)
(***************************************************************************)
EXTENDS Integers, Sequences, FiniteSets, TLC

VARIABLES
    decl,            \* the declaration as the caller handed it over (never changed)
    ref,             \* PivotRef &ref, as the call mutates it
    source_columns,  \* what ExpandStarExpression yields for the bound source
    pc,              \* position inside Binder::Bind
    all_columns,     \* vector<unique_ptr<ParsedExpression>> all_columns
    handled_columns, \* case_insensitive_set_t handled_columns of BindPivot
    total_pivots,    \* idx_t total_pivots of BindPivot
    pivot_values,    \* vector<PivotValueElement> pivot_values of BindPivot
    bind_state,      \* PivotBindState bind_state
    select_node,     \* the tree under construction / unique_ptr<SelectNode> select_node
    where_clause,    \* unique_ptr<ParsedExpression> where_clause of Bind
    binders,         \* the binders created by Binder::CreateBinder so far
    bound_nodes,     \* the bound query nodes produced so far, innermost first
    registry,        \* this->bind_context: the registered sub-queries
    result,          \* unique_ptr<BoundTableRef> result
    locals,          \* root_index, bound_select_ptr and subquery_ref of Bind
    errors           \* the exceptions that left Binder::Bind

vars == <<decl, ref, source_columns, pc, all_columns, handled_columns,
          total_pivots, pivot_values, bind_state, select_node, where_clause,
          binders, bound_nodes, registry, result, locals, errors>>

(***************************************************************************)
(* Bounds of the model.                                                    *)
(***************************************************************************)
MaxEntries == 2
MaxPivots == 2
MaxAggregates == 2

(***************************************************************************)
(* Program constants.                                                      *)
(***************************************************************************)
PIVOT_EXPRESSION_LIMIT == 10000

(***************************************************************************)
(* Strings.                                                                *)
(***************************************************************************)
\* StringUtil::Lower on the identifiers of the model: the only identifiers
\* with upper-case letters are Q1, Q2 and Amount.
Lower(s) ==
    CASE s = "Q1" -> "q1"
      [] s = "Q2" -> "q2"
      [] s = "Amount" -> "amount"
      [] OTHER -> s

\* A genuine underscore-join of a sequence of strings (no string is skipped).
RECURSIVE JoinFrom(_, _, _)
JoinFrom(strs, sep, i) ==
    IF i > Len(strs) THEN ""
    ELSE IF i = Len(strs) THEN strs[i]
    ELSE strs[i] \o sep \o JoinFrom(strs, sep, i + 1)
Join(strs, sep) == JoinFrom(strs, sep, 1)

(***************************************************************************)
(* Value.                                                                  *)
(***************************************************************************)
VarcharValue(s) == [type |-> "VARCHAR", str |-> s, children |-> <<>>]
IntegerValue(n) == [type |-> "INTEGER", str |-> ToString(n), children |-> <<>>]
ValueToString(v) == v.str
ListValue(vals) ==
    [type |-> "LIST",
     str |-> "[" \o Join([i \in 1..Len(vals) |-> ValueToString(vals[i])], ", ") \o "]",
     children |-> vals]
NullValue == [type |-> "NULL", str |-> "NULL", children |-> <<>>]

(***************************************************************************)
(* Parsed expressions.  Every expression is a record of the same shape.    *)
(***************************************************************************)
Expression(type, name, table, children, value) ==
    [type |-> type, name |-> name, table |-> table, children |-> children,
     value |-> value, alias |-> ""]
ColumnRefExpression(name) == Expression("COLUMN_REF", name, "", <<>>, NullValue)
QualifiedColumnRef(table, name) == Expression("COLUMN_REF", name, table, <<>>, NullValue)
ConstantExpression(value) == Expression("VALUE_CONSTANT", "", "", <<>>, value)
FunctionExpression(name, children) == Expression("FUNCTION", name, "", children, NullValue)
StarExpression == Expression("STAR", "*", "", <<>>, NullValue)
OperatorExpression(type, child) == Expression(type, "", "", <<child>>, NullValue)
ConjunctionExpression(type, left, right) == Expression(type, "", "", <<left, right>>, NullValue)
SubqueryExpression == Expression("SUBQUERY", "", "", <<>>, NullValue)
WindowExpression(name, children) == Expression("WINDOW_AGGREGATE", name, "", children, NullValue)
WithAlias(expr, alias) == [expr EXCEPT !.alias = alias]

IsQualified(colref) == colref.table # ""
GetColumnName(colref) == colref.name
\* ParsedExpression::GetName: the alias, or the expression's own name
GetName(expr) == IF expr.alias # "" THEN expr.alias ELSE expr.name

RECURSIVE HasSubquery(_)
HasSubquery(expr) ==
    \/ expr.type = "SUBQUERY"
    \/ \E i \in 1..Len(expr.children) : HasSubquery(expr.children[i])

RECURSIVE IsWindow(_)
IsWindow(expr) ==
    \/ expr.type = "WINDOW_AGGREGATE"
    \/ \E i \in 1..Len(expr.children) : IsWindow(expr.children[i])

\* a variant of ExtractThrows that does not descend into the children
ExtractThrowsAtRootOnly(expr) == expr.type = "COLUMN_REF" /\ IsQualified(expr)

\* ExtractPivotExpressions: whether the walk throws ...
RECURSIVE ExtractThrows(_)
ExtractThrows(expr) ==
    \/ expr.type = "COLUMN_REF" /\ IsQualified(expr)
    \/ \E i \in 1..Len(expr.children) : ExtractThrows(expr.children[i])

\* a variant of ExtractPivotExpressions that does not enumerate the children
ExtractPivotExpressionsAtRootOnly(expr) ==
    IF expr.type = "COLUMN_REF" THEN {Lower(GetColumnName(expr))} ELSE {}

\* ... and the names it inserts into the case-insensitive set when it does not
RECURSIVE ExtractPivotExpressions(_)
ExtractPivotExpressions(expr) ==
    (IF expr.type = "COLUMN_REF" THEN {Lower(GetColumnName(expr))} ELSE {})
        \cup UNION {ExtractPivotExpressions(expr.children[i]) : i \in 1..Len(expr.children)}

\* the first element of a sequence of messages that is an error, "" if none
FirstError(msgs) ==
    IF \A i \in 1..Len(msgs) : msgs[i] = "" THEN ""
    ELSE msgs[CHOOSE i \in 1..Len(msgs) :
                 msgs[i] # "" /\ \A j \in 1..(i - 1) : msgs[j] = ""]

(***************************************************************************)
(* Table references and query nodes.  from_table of a SelectNode is the    *)
(* moved source, a SubqueryRef around the previous stage, or null.         *)
(***************************************************************************)
NullTableRef == [kind |-> "NULL", name |-> "", node |-> <<>>]
BaseTableRef(name) == [kind |-> "BASE_TABLE", name |-> name, node |-> <<>>]
SubqueryRef(node) == [kind |-> "SUBQUERY", name |-> "", node |-> <<node>>]

\* make_unique<SelectNode>(): where_clause is a sequence of zero or one expression
EmptySelectNode ==
    [select_list |-> <<>>, from_table |-> NullTableRef, where_clause |-> <<>>,
     group_expressions |-> <<>>]

(***************************************************************************)
(* The declaration.                                                        *)
(***************************************************************************)
\* star_expr is "" for a null pointer, else the star expression of the entry
PivotColumnEntry(values, alias) == [values |-> values, alias |-> alias, star_expr |-> ""]
StarEntry(star_expr) == [values |-> <<>>, alias |-> "", star_expr |-> star_expr]
PivotColumn(pivot_expressions, entries) ==
    [pivot_expressions |-> pivot_expressions, unpivot_names |-> <<>>,
     entries |-> entries, pivot_enum |-> ""]
EnumPivotColumn(pivot_expressions, pivot_enum) ==
    [pivot_expressions |-> pivot_expressions, unpivot_names |-> <<>>,
     entries |-> <<>>, pivot_enum |-> pivot_enum]
UnpivotColumn(unpivot_names, entries) ==
    [pivot_expressions |-> <<>>, unpivot_names |-> unpivot_names,
     entries |-> entries, pivot_enum |-> ""]

(***************************************************************************)
(* The catalog: Catalog::GetType for the type names the declarations use.  *)
(* quarter_t is a two-valued ENUM, almost_t and limit_t are ENUMs with one *)
(* value less than, and exactly, PIVOT_EXPRESSION_LIMIT values, empty_t is *)
(* an ENUM without values, ninety_nine_t, hundred_t and hundred_one_t are  *)
(* ENUMs of 99, 100 and 101 values, sixteen_t is an ENUM of 16 values, and *)
(* any other name is no ENUM.                                              *)
(***************************************************************************)
EnumOfSize(n) == [id |-> "ENUM", values |-> [i \in 1..n |-> "v" \o ToString(i)]]
GetType(name) ==
    CASE name = "quarter_t" -> [id |-> "ENUM", values |-> <<"Q1", "Q2">>]
      [] name = "almost_t" -> EnumOfSize(PIVOT_EXPRESSION_LIMIT - 1)
      [] name = "limit_t" -> EnumOfSize(PIVOT_EXPRESSION_LIMIT)
      [] name = "empty_t" -> EnumOfSize(0)
      [] name = "ninety_nine_t" -> EnumOfSize(99)
      [] name = "hundred_t" -> EnumOfSize(100)
      [] name = "hundred_one_t" -> EnumOfSize(101)
      [] name = "sixteen_t" -> EnumOfSize(16)
      [] OTHER -> [id |-> "INTEGER", values |-> <<>>]

(***************************************************************************)
(* Binder::BindPivot, lines 247-314: validation.                           *)
(***************************************************************************)
\* one iteration of the loop over ref.aggregates: the message thrown, or ""
AggregateError(aggr) ==
    IF aggr.type # "FUNCTION" THEN "Pivot expression must be an aggregate"
    ELSE IF HasSubquery(aggr) THEN "Pivot expression cannot contain subqueries"
    ELSE IF IsWindow(aggr) THEN "Pivot expression cannot contain window functions"
    ELSE IF ExtractThrows(aggr) THEN "PIVOT expression cannot contain qualified columns"
    ELSE ""

\* lines 270-285: the entries a pivot column has once its ENUM is expanded
EnumError(pivot) ==
    IF pivot.pivot_enum # "" /\ GetType(pivot.pivot_enum).id # "ENUM"
    THEN "Pivot must reference an ENUM type"
    ELSE ""
ExpandEnum(pivot) ==
    IF pivot.pivot_enum = "" \/ EnumError(pivot) # "" THEN pivot
    ELSE LET enum_values == GetType(pivot.pivot_enum).values
         IN [pivot EXCEPT !.entries = @ \o
                [i \in 1..Len(enum_values) |->
                    [values |-> <<VarcharValue(enum_values[i])>>,
                     alias |-> enum_values[i], star_expr |-> ""]]]

\* a variant of EntryValue that looks at the first value of an entry only
EntryValueFirstOnly(entry) == entry.values[1]

\* lines 294-299: the value the duplicate check looks up and inserts
EntryValue(entry) ==
    IF Len(entry.values) = 1 THEN entry.values[1] ELSE ListValue(entry.values)

\* lines 291-310: the scan of one (expanded) pivot column's entries.  Entry j
\* throws the duplicate error when an earlier entry inserted the same value,
\* else the arity error when its value count is not the expression count.
EntriesError(pivot) ==
    LET n == Len(pivot.entries)
        val == [j \in 1..n |-> EntryValue(pivot.entries[j])]
        wrong(j) == Len(pivot.entries[j].values) # Len(pivot.pivot_expressions)
        dup(j) == \E i \in 1..(j - 1) : val[i] = val[j]
        throws(j) == dup(j) \/ wrong(j)
    IN IF Cardinality({val[j] : j \in 1..n}) = n /\ \A j \in 1..n : ~wrong(j) THEN ""
       ELSE LET first == CHOOSE j \in 1..n : throws(j) /\ \A k \in 1..(j - 1) : ~throws(k)
            IN IF dup(first) THEN "was specified multiple times in the IN clause"
               ELSE "PIVOT IN list - inconsistent amount of rows"

\* lines 288-290
PivotExpressionsError(pivot) ==
    IF \E i \in 1..Len(pivot.pivot_expressions) : ExtractThrows(pivot.pivot_expressions[i])
    THEN "PIVOT expression cannot contain qualified columns"
    ELSE ""

\* idx_t is an unsigned integer of IdxBits bits.  Its value is held as a
\* sequence of digits of base LimbBase, the least significant first.
IdxBits == 64
LimbBase == 2 ^ 16
Idx(n) == [i \in 1..(IdxBits \div 16) |-> IF i = 1 THEN n ELSE 0]

\* x * n in idx_t arithmetic: digit by digit with a carry; the carry out of
\* the most significant digit is lost, which is the reduction modulo 2^64
RECURSIVE IdxMultiplyFrom(_, _, _, _)
IdxMultiplyFrom(x, n, i, carry) ==
    IF i > Len(x) THEN <<>>
    ELSE LET product == x[i] * n + carry
         IN <<product % LimbBase>> \o IdxMultiplyFrom(x, n, i + 1, product \div LimbBase)
IdxMultiply(x, n) == IdxMultiplyFrom(x, n, 1, 0)

\* x >= n, for an n below LimbBase
IdxAtLeast(x, n) == x[1] >= n \/ \E i \in 2..Len(x) : x[i] # 0

\* a variant of LimitExceeded that admits a product equal to the limit
LimitExceededAboveOnly(total) == IdxAtLeast(total, PIVOT_EXPRESSION_LIMIT + 1)

\* line 312
LimitExceeded(total) == IdxAtLeast(total, PIVOT_EXPRESSION_LIMIT)

\* one iteration of the loop over ref.pivots
PivotError(pivot) ==
    FirstError(<<EnumError(pivot), PivotExpressionsError(pivot), EntriesError(ExpandEnum(pivot))>>)

\* total_pivots after the first `upto` iterations of total_pivots *= pivot.entries.size().
\* total_pivots is an idx_t, and so is the product.
RECURSIVE TotalPivots(_, _)
TotalPivots(pivots, upto) ==
    IF upto = 0 THEN Idx(1)
    ELSE IdxMultiply(TotalPivots(pivots, upto - 1), Len(pivots[upto].entries))

\* The whole of lines 251-314 on a declaration: the error thrown ("" if none),
\* the declaration as the loop leaves it, the handled columns and the product.
ValidatePivot(r) ==
    LET aggr_error == FirstError([i \in 1..Len(r.aggregates) |-> AggregateError(r.aggregates[i])])
        pivot_errors == [i \in 1..Len(r.pivots) |-> PivotError(r.pivots[i])]
        pivot_error == FirstError(pivot_errors)
        \* the pivot columns the loop reached
        reached == IF aggr_error # "" THEN 0
                   ELSE IF pivot_error = "" THEN Len(r.pivots)
                   ELSE CHOOSE i \in 1..Len(r.pivots) :
                            pivot_errors[i] # "" /\ \A j \in 1..(i - 1) : pivot_errors[j] = ""
        expanded == [i \in 1..Len(r.pivots) |->
                        IF i <= reached THEN ExpandEnum(r.pivots[i]) ELSE r.pivots[i]]
        total == TotalPivots(expanded, reached)
        error == IF aggr_error # "" THEN aggr_error
                 ELSE IF pivot_error # "" THEN pivot_error
                 ELSE IF LimitExceeded(total) THEN "Pivot column limit exceeded"
                 ELSE ""
        handled == UNION ({ExtractPivotExpressions(r.aggregates[i]) : i \in 1..Len(r.aggregates)}
                     \cup {UNION {ExtractPivotExpressions(r.pivots[i].pivot_expressions[k]) :
                                     k \in 1..Len(r.pivots[i].pivot_expressions)} :
                             i \in 1..Len(r.pivots)})
    IN [error |-> error, ref |-> [r EXCEPT !.pivots = expanded],
        handled_columns |-> handled, total_pivots |-> total]

(***************************************************************************)
(* ConstructPivots, lines 25-56.                                           *)
(***************************************************************************)
EmptyPivotValueElement == [values |-> <<>>, name |-> ""]

\* lines 31-43: the loop over entry.values that builds `name`
RECURSIVE EntryNameFrom(_, _, _)
EntryNameFrom(entry, name, v) ==
    IF v > Len(entry.values) THEN name
    ELSE LET str == ValueToString(entry.values[v])
         IN EntryNameFrom(entry,
                          IF entry.alias = ""
                          THEN (IF name = "" THEN str ELSE name \o "_" \o str)
                          ELSE name,
                          v + 1)
EntryName(entry) == EntryNameFrom(entry, entry.alias, 1)

\* lines 30-48: new_value for one entry
NewValue(current_value, entry) ==
    [values |-> current_value.values \o entry.values,
     name |-> IF current_value.name # ""
              THEN current_value.name \o "_" \o EntryName(entry)
              ELSE EntryName(entry)]

RECURSIVE Flatten(_, _)
Flatten(seqs, i) == IF i > Len(seqs) THEN <<>> ELSE seqs[i] \o Flatten(seqs, i + 1)

\* The number of elements the call for pivot column i appends per call,
\* counted up to limit: a count of limit stands for limit or more.
RECURSIVE PushCount(_, _, _)
PushCount(pivots, i, limit) ==
    IF i > Len(pivots) THEN 1
    ELSE LET pushes == Len(pivots[i].entries) * PushCount(pivots, i + 1, limit)
         IN IF pushes > limit THEN limit ELSE pushes

\* The elements one call appends to pivot_values, in the order of the pushes.
RECURSIVE ConstructPivots(_, _, _)
ConstructPivots(pivots, pivot_idx, current_value) ==
    LET pivot == pivots[pivot_idx]
        last_pivot == pivot_idx = Len(pivots)
    IN IF last_pivot
       THEN [e \in 1..Len(pivot.entries) |-> NewValue(current_value, pivot.entries[e])]
       ELSE Flatten([e \in 1..Len(pivot.entries) |->
                        ConstructPivots(pivots, pivot_idx + 1,
                                        NewValue(current_value, pivot.entries[e]))], 1)

(***************************************************************************)
(* PivotBindState and the four stages, lines 70-245.                       *)
(***************************************************************************)
EmptyBindState ==
    [internal_group_names |-> <<>>, group_names |-> <<>>, aggregate_names |-> <<>>,
     internal_aggregate_names |-> <<>>, internal_pivot_names |-> <<>>,
     internal_map_names |-> <<>>]

\* a moved-from unique_ptr<ParsedExpression>
NullExpression == Expression("NULL", "", "", <<>>, NullValue)

PositionalReference(select_list) == ConstantExpression(IntegerValue(Len(select_list) + 1))

\* the number of elements among the first n of exprs that have no alias
Unaliased(exprs, n) == Cardinality({i \in 1..n : exprs[i].alias = ""})

\* the pivot expressions of all pivot columns, in the order of the nested loops
RECURSIVE PivotExpressionsOf(_, _)
PivotExpressionsOf(pivots, i) ==
    IF i > Len(pivots) THEN <<>>
    ELSE pivots[i].pivot_expressions \o PivotExpressionsOf(pivots, i + 1)

\* the number of pivot expressions in the columns before column i
RECURSIVE PivotExpressionsBefore(_, _)
PivotExpressionsBefore(pivots, i) ==
    IF i <= 1 THEN 0
    ELSE PivotExpressionsBefore(pivots, i - 1) + Len(pivots[i - 1].pivot_expressions)

\* PivotStageOne, lines 79-136.  error is the InternalException of line 86.
PivotStageOne(state, r, columns, handled) ==
    LET throws == r.groups = <<>> /\ \E i \in 1..Len(columns) : columns[i].type # "COLUMN_REF"
        selected == IF r.groups = <<>>
                    THEN SelectSeq(columns,
                                   LAMBDA entry : Lower(GetColumnName(entry)) \notin handled)
                    ELSE [i \in 1..Len(r.groups) |-> ColumnRefExpression(r.groups[i])]
        \* lines 104-111
        groups == [i \in 1..Len(selected) |->
                     IF selected[i].alias = ""
                     THEN WithAlias(selected[i], "__internal_pivot_group"
                                                   \o ToString(Unaliased(selected, i)))
                     ELSE selected[i]]
        \* lines 113-125
        pivot_exprs == PivotExpressionsOf(r.pivots, 1)
        pivots == [i \in 1..Len(pivot_exprs) |->
                     IF pivot_exprs[i].alias = ""
                     THEN WithAlias(pivot_exprs[i], "__internal_pivot_ref"
                                                      \o ToString(Unaliased(pivot_exprs, i)))
                     ELSE pivot_exprs[i]]
        \* lines 126-134
        aggregates == [i \in 1..Len(r.aggregates) |->
                         WithAlias(r.aggregates[i], "__internal_pivot_aggregate" \o ToString(i))]
        grouped == groups \o pivots
    IN [error |-> IF throws THEN "Unexpected child of pivot source - not a ColumnRef" ELSE "",
        node |-> [select_list |-> grouped \o aggregates,
                  from_table |-> r.source,
                  where_clause |-> <<>>,
                  group_expressions |-> [i \in 1..Len(grouped) |->
                                            ConstantExpression(IntegerValue(i))]],
        bind_state |-> [state EXCEPT
            !.group_names = @ \o [i \in 1..Len(selected) |-> GetName(selected[i])],
            !.internal_group_names = @ \o [i \in 1..Len(groups) |-> groups[i].alias],
            !.aggregate_names = @ \o [i \in 1..Len(r.aggregates) |-> r.aggregates[i].alias],
            !.internal_aggregate_names = @ \o [i \in 1..Len(aggregates) |-> aggregates[i].alias]],
        ref |-> [r EXCEPT
            !.source = NullTableRef,
            !.pivots = [i \in 1..Len(r.pivots) |->
                          [r.pivots[i] EXCEPT !.pivot_expressions =
                              [k \in 1..Len(r.pivots[i].pivot_expressions) |->
                                  IF throws THEN @[k]
                                  ELSE ColumnRefExpression(
                                         pivots[PivotExpressionsBefore(r.pivots, i) + k].alias)]]],
            !.aggregates = IF throws THEN @
                           ELSE [i \in 1..Len(r.aggregates) |-> NullExpression]]]

\* PivotStageTwo, lines 138-178
PivotStageTwo(state, r, subquery_stage1) ==
    LET groups == [gr \in 1..Len(state.internal_group_names) |->
                     WithAlias(ColumnRefExpression(state.internal_group_names[gr]),
                               state.internal_group_names[gr])]
        aggregates == [aggr \in 1..Len(state.internal_aggregate_names) |->
                         WithAlias(FunctionExpression("list",
                                      <<ColumnRefExpression(state.internal_aggregate_names[aggr])>>),
                                   state.internal_aggregate_names[aggr])]
        pivot_exprs == PivotExpressionsOf(r.pivots, 1)
        pivot_names == [i \in 1..Len(pivot_exprs) |-> "__internal_pivot_name" \o ToString(i)]
        pivots == [i \in 1..Len(pivot_exprs) |->
                     WithAlias(FunctionExpression("list", <<pivot_exprs[i]>>), pivot_names[i])]
    IN [node |-> [select_list |-> groups \o aggregates \o pivots,
                  from_table |-> SubqueryRef(subquery_stage1),
                  where_clause |-> <<>>,
                  group_expressions |-> [gr \in 1..Len(groups) |->
                                            ConstantExpression(IntegerValue(gr))]],
        bind_state |-> [state EXCEPT !.internal_pivot_names = @ \o pivot_names],
        ref |-> [r EXCEPT !.pivots = [i \in 1..Len(r.pivots) |->
                    [r.pivots[i] EXCEPT !.pivot_expressions =
                        [k \in 1..Len(r.pivots[i].pivot_expressions) |-> NullExpression]]]]]

\* PivotStageThree, lines 180-208.  internal_aggregate_names[i] is read for
\* every i below internal_pivot_names.size(); out_of_range is what such a
\* read yields when i is not an index of internal_aggregate_names.
PivotStageThree(state, subquery_stage2, out_of_range) ==
    LET groups == [gr \in 1..Len(state.internal_group_names) |->
                     WithAlias(ColumnRefExpression(state.internal_group_names[gr]),
                               state.internal_group_names[gr])]
        map_names == [i \in 1..Len(state.internal_pivot_names) |->
                        "__internal_pivot_map" \o ToString(i)]
        maps == [i \in 1..Len(state.internal_pivot_names) |->
                   WithAlias(FunctionExpression("map",
                       <<ColumnRefExpression(state.internal_pivot_names[i]),
                         ColumnRefExpression(IF i <= Len(state.internal_aggregate_names)
                                             THEN state.internal_aggregate_names[i]
                                             ELSE out_of_range)>>),
                       map_names[i])]
    IN [node |-> [select_list |-> groups \o maps,
                  from_table |-> SubqueryRef(subquery_stage2),
                  where_clause |-> <<>>,
                  group_expressions |-> <<>>],
        bind_state |-> [state EXCEPT !.internal_map_names = @ \o map_names]]

\* a variant of MapExtract that names the output column after the pivot
\* value instead of the element's name
MapExtractValueAlias(internal_map, value, alias) ==
    WithAlias(FunctionExpression("array_extract",
                <<FunctionExpression("map_extract",
                      <<ColumnRefExpression(internal_map), ConstantExpression(value)>>),
                  ConstantExpression(IntegerValue(1))>>),
              ValueToString(value))

\* lines 230-241: array_extract(map_extract(map, value), 1) AS alias
MapExtract(internal_map, value, alias) ==
    WithAlias(FunctionExpression("array_extract",
                <<FunctionExpression("map_extract",
                      <<ColumnRefExpression(internal_map), ConstantExpression(value)>>),
                  ConstantExpression(IntegerValue(1))>>),
              alias)

\* lines 225-242: the array_extract(map_extract(map, value), 1) calls of one
\* pivot value.  value and name are moved out of pivot_value by the first
\* map; a later map of the same pivot value sees what the move left behind.
MapExtracts(state, pivot_value) ==
    [m \in 1..Len(state.internal_map_names) |->
        MapExtract(state.internal_map_names[m],
                   IF m = 1 THEN pivot_value.values[1] ELSE NullValue,
                   IF m = 1 THEN pivot_value.name ELSE "")]

\* PivotStageFour, lines 210-245.  error is the InternalException of line 228.
PivotStageFour(state, subquery_stage3, values) ==
    LET groups == [gr \in 1..Len(state.internal_group_names) |->
                     WithAlias(ColumnRefExpression(state.internal_group_names[gr]),
                               state.group_names[gr])]
        throws == \E i \in 1..Len(values) : Len(values[i].values) # 1
    IN [error |-> IF throws THEN "FIXME multiple pivots" ELSE "",
        node |-> [select_list |->
                      IF throws THEN groups
                      ELSE LET maps == Len(state.internal_map_names)
                           IN groups \o [k \in 1..(Len(values) * maps) |->
                                  MapExtracts(state, values[((k - 1) \div maps) + 1])
                                      [((k - 1) % maps) + 1]],
                  from_table |-> SubqueryRef(subquery_stage3),
                  where_clause |-> <<>>,
                  group_expressions |-> <<>>]]

(***************************************************************************)
(* Binder::BindUnpivot, lines 356-482.                                     *)
(***************************************************************************)
\* a PivotColumnEntry that has been moved from
MovedEntry == [values |-> <<>>, alias |-> "", star_expr |-> ""]

\* Binder::ExpandStarExpression on the star binder: "*" yields every column
\* of the source, a star whose EXCLUDE list names them all yields none
ExpandStarExpression(star_expr, columns) ==
    IF star_expr = "*" THEN columns ELSE <<>>

\* lines 377-386: the entries one star expression expands to
StarEntries(star_columns) ==
    [i \in 1..Len(star_columns) |->
        PivotColumnEntry(<<VarcharValue(GetColumnName(star_columns[i]))>>,
                         GetColumnName(star_columns[i]))]

\* lines 370-391
ExpandStars(entries, columns) ==
    Flatten([i \in 1..Len(entries) |->
                IF entries[i].star_expr # ""
                THEN StarEntries(ExpandStarExpression(entries[i].star_expr, columns))
                ELSE <<entries[i]>>], 1)

\* lines 395-399
UnpivotHandled(entries) ==
    UNION {{Lower(ValueToString(entries[i].values[v])) : v \in 1..Len(entries[i].values)} :
              i \in 1..Len(entries)}

\* lines 401-415: source column i finds its name in handled_columns (and is
\* erased from it) iff an entry names it and no earlier source column of the
\* same name has erased it already
Matched(columns, handled, i) ==
    /\ Lower(GetColumnName(columns[i])) \in handled
    /\ \A j \in 1..(i - 1) : Lower(GetColumnName(columns[j])) # Lower(GetColumnName(columns[i]))

\* name_map after the loop: the source column recorded under a lower-cased key
NameMap(columns, handled) ==
    [key \in {Lower(GetColumnName(columns[i])) : i \in {k \in 1..Len(columns) : Matched(columns, handled, k)}} |->
        GetColumnName(columns[CHOOSE i \in 1..Len(columns) :
            Matched(columns, handled, i) /\ Lower(GetColumnName(columns[i])) = key])]

\* lines 424-434
RECURSIVE GeneratedNameFrom(_, _, _, _)
GeneratedNameFrom(entry, name_map, generated_name, v) ==
    IF v > Len(entry.values) THEN generated_name
    ELSE GeneratedNameFrom(entry, name_map,
            (IF generated_name # "" THEN generated_name \o "_" ELSE "")
                \o name_map[Lower(ValueToString(entry.values[v]))],
            v + 1)

\* whether lines 438-445 read entries[0] or entry.values[v_idx] out of range
UnpivotOutOfRange(entries) ==
    \/ entries = <<>>
    \/ \E i \in 1..Len(entries) : Len(entries[i].values) < Len(entries[1].values)

\* What an out-of-range read does: the process dies, or the read yields
\* whatever is in memory (a size for entries[0].values, a string for a value).
UnpivotOutcomes(entries) ==
    IF UnpivotOutOfRange(entries)
    THEN {[crash |-> TRUE, size |-> 0, str |-> ""]}
            \cup {[crash |-> FALSE, size |-> n, str |-> "<out of range>"] : n \in 0..1}
    ELSE {[crash |-> FALSE, size |-> 0, str |-> ""]}

\* a variant of NotNullFilter that replaces the filter built so far by the
\* predicate of the last value column
NotNullFilterLastOnly(where, unnest_names, i) ==
    IF i = 0 THEN where
    ELSE <<OperatorExpression("OPERATOR_IS_NOT_NULL", ColumnRefExpression(unnest_names[i]))>>

\* lines 461-480: the filter after value columns 1..i
RECURSIVE NotNullFilter(_, _, _)
NotNullFilter(where, unnest_names, i) ==
    IF i = 0 THEN where
    ELSE LET before == NotNullFilter(where, unnest_names, i - 1)
             filter == OperatorExpression("OPERATOR_IS_NOT_NULL",
                                          ColumnRefExpression(unnest_names[i]))
         IN IF before # <<>>
            THEN <<ConjunctionExpression("CONJUNCTION_AND", before[1], filter)>>
            ELSE <<filter>>

\* The whole function.  outcome is one element of UnpivotOutcomes.
BindUnpivot(r, columns, star_columns, where, outcome) ==
    LET unpivot == r.pivots[1]
        \* line 378: the star expression of entry i expands to something that is no ColumnRef
        throwing(i) ==
            /\ unpivot.entries[i].star_expr # ""
            /\ LET expanded == ExpandStarExpression(unpivot.entries[i].star_expr, star_columns)
               IN \E k \in 1..Len(expanded) : expanded[k].type # "COLUMN_REF"
        star_throws == \E i \in 1..Len(unpivot.entries) : throwing(i)
        first_star == CHOOSE i \in 1..Len(unpivot.entries) :
                         throwing(i) /\ \A j \in 1..(i - 1) : ~throwing(j)
        entries == IF star_throws
                   THEN [i \in 1..Len(unpivot.entries) |->
                           IF i < first_star THEN MovedEntry
                           ELSE IF i = first_star THEN [unpivot.entries[i] EXCEPT !.star_expr = ""]
                           ELSE unpivot.entries[i]]
                   ELSE ExpandStars(unpivot.entries, star_columns)
        source_throws == \E i \in 1..Len(columns) : columns[i].type # "COLUMN_REF"
        handled == UnpivotHandled(entries)
        unhandled == SelectSeq([i \in 1..Len(columns) |-> [pos |-> i, expr |-> columns[i]]],
                               LAMBDA c : ~Matched(columns, handled, c.pos))
        left_over == handled \ {Lower(GetColumnName(columns[i])) : i \in 1..Len(columns)}
        name_map == NameMap(columns, handled)
        unpivot_names == [i \in 1..Len(entries) |->
                            VarcharValue(IF entries[i].alias # "" THEN entries[i].alias
                                         ELSE GeneratedNameFrom(entries[i], name_map, "", 1))]
        value_count == IF entries = <<>> THEN outcome.size ELSE Len(entries[1].values)
        unpivot_expressions ==
            [v_idx \in 1..value_count |->
                [i \in 1..Len(entries) |->
                    ColumnRefExpression(IF v_idx <= Len(entries[i].values)
                                        THEN ValueToString(entries[i].values[v_idx])
                                        ELSE outcome.str)]]
        unnest_name_expr ==
            WithAlias(FunctionExpression("unnest", <<ConstantExpression(ListValue(unpivot_names))>>),
                      unpivot.unpivot_names[1])
        unnest_names == [i \in 1..value_count |->
                           IF i <= Len(r.column_name_alias) THEN r.column_name_alias[i]
                           ELSE r.unpivot_names[i]]
        unnest_val_exprs ==
            [i \in 1..value_count |->
                WithAlias(FunctionExpression("unnest",
                              <<FunctionExpression("list_value", unpivot_expressions[i])>>),
                          unnest_names[i])]
        error == IF star_throws THEN "Unexpected child of unpivot star - not a ColumnRef"
                 ELSE IF source_throws THEN "Unexpected child of pivot source - not a ColumnRef"
                 ELSE IF left_over # {}
                      THEN "referenced in UNPIVOT but no matching entry was found in the table"
                 ELSE IF outcome.crash THEN ""
                 ELSE IF Len(r.unpivot_names) # value_count THEN "UNPIVOT name count mismatch"
                 ELSE ""
        returns == error = "" /\ ~outcome.crash
    IN [error |-> error,
        crash |-> error = "" /\ outcome.crash,
        ref |-> [r EXCEPT !.source = NullTableRef,
                          !.pivots = <<[unpivot EXCEPT !.entries = entries]>>],
        node |-> IF returns
                 THEN [select_list |-> [i \in 1..Len(unhandled) |-> unhandled[i].expr]
                                          \o <<unnest_name_expr>> \o unnest_val_exprs,
                       from_table |-> r.source,
                       where_clause |-> <<>>,
                       group_expressions |-> <<>>]
                 ELSE EmptySelectNode,
        where_clause |-> IF returns /\ ~r.include_nulls
                         THEN NotNullFilter(where, unnest_names, value_count)
                         ELSE where]

(***************************************************************************)
(* Binder::Bind(PivotRef &), lines 484-533, as a state machine.            *)
(*                                                                         *)
(* pc: Unvalidated -> BindPivot -> Validated -> Enumerated -> Stage1 ->    *)
(*     Stage2 -> Stage3 -> Rewritten, or Unvalidated -> BindUnpivot ->     *)
(*     Rewritten; then Rewritten -> Bound -> (Filtered) -> Registered.     *)
(* An exception ends the call in Failed, a fatal out-of-range read in      *)
(* Crashed.                                                                *)
(***************************************************************************)
NoResult == [binder |-> 0, node |-> 0]
NoLocals == [root_index |-> 0, bound_select_ptr |-> 0,
             subquery_ref |-> [alias |-> "", column_name_alias |-> <<>>]]

\* Binder::CreateBinder(context, parent): a binder with an empty bind_context
CreateBinder(parent) == [parent |-> parent, subqueries |-> <<>>]

\* BindContext::AddSubquery(index, alias, ref, subquery)
AddSubquery(bind_context, index, subquery_ref, subquery) ==
    Append(bind_context, [index |-> index, alias |-> subquery_ref.alias,
                          column_name_alias |-> subquery_ref.column_name_alias,
                          subquery |-> subquery])

\* the table index the binder generates for the next bound node; index 0 is
\* taken by the sub-query that is registered before the call
GenerateTableIndex == Len(bound_nodes) + 1

\* throw: the exception propagates out of Bind
Throw(message) ==
    /\ pc' = "Failed"
    /\ errors' = Append(errors, message)

\* lines 485-505: the source check, the star binder and the dispatch
StartBind ==
    /\ pc = "Unvalidated"
    /\ IF ref.source.kind = "NULL"
       THEN /\ Throw("Pivot without a source!?")
            /\ UNCHANGED <<binders, all_columns>>
       ELSE \E source_binds \in BOOLEAN :
              /\ binders' = Append(binders, CreateBinder("none"))
              /\ IF ~source_binds
                 THEN /\ Throw("the source does not bind")
                      /\ UNCHANGED all_columns
                 ELSE /\ all_columns' = source_columns
                      /\ pc' = IF ref.aggregates # <<>> THEN "BindPivot" ELSE "BindUnpivot"
                      /\ UNCHANGED errors
    /\ UNCHANGED <<decl, ref, source_columns, handled_columns, total_pivots, pivot_values,
                   bind_state, select_node, where_clause, bound_nodes, registry, result,
                   locals>>

\* BindPivot, lines 251-314
ValidatePivotStep ==
    /\ pc = "BindPivot"
    /\ LET v == ValidatePivot(ref)
       IN /\ ref' = v.ref
          /\ IF v.error # ""
             THEN /\ Throw(v.error)
                  /\ UNCHANGED <<handled_columns, total_pivots>>
             ELSE /\ handled_columns' = v.handled_columns
                  /\ total_pivots' = v.total_pivots
                  /\ pc' = "Validated"
                  /\ UNCHANGED errors
    /\ UNCHANGED <<decl, source_columns, all_columns, pivot_values, bind_state, select_node,
                   where_clause, binders, bound_nodes, registry, result, locals>>

\* BindPivot, lines 317-318
\* The limit check has admitted total_pivots.  When the number of elements
\* to push is nevertheless at or above the limit, total_pivots has wrapped
\* around and the elements number 2^64 or more: the pushes exhaust the
\* memory, which ends in std::bad_alloc or in the death of the process.
ConstructPivotsStep ==
    /\ pc = "Validated"
    /\ IF PushCount(ref.pivots, 1, PIVOT_EXPRESSION_LIMIT) >= PIVOT_EXPRESSION_LIMIT
       THEN /\ \/ Throw("std::bad_alloc")
               \/ pc' = "Crashed" /\ UNCHANGED errors
            /\ UNCHANGED pivot_values
       ELSE /\ pivot_values' =
                  pivot_values \o ConstructPivots(ref.pivots, 1, EmptyPivotValueElement)
            /\ pc' = "Enumerated"
            /\ UNCHANGED errors
    /\ UNCHANGED <<decl, ref, source_columns, all_columns, handled_columns, total_pivots,
                   bind_state, select_node, where_clause, binders, bound_nodes, registry,
                   result, locals>>

\* BindPivot, lines 335-338
StageOneStep ==
    /\ pc = "Enumerated"
    /\ LET s == PivotStageOne(bind_state, ref, all_columns, handled_columns)
       IN /\ ref' = s.ref
          /\ all_columns' = <<>>
          /\ IF s.error # ""
             THEN /\ Throw(s.error)
                  /\ UNCHANGED <<bind_state, select_node>>
             ELSE /\ bind_state' = s.bind_state
                  /\ select_node' = s.node
                  /\ pc' = "Stage1"
                  /\ UNCHANGED errors
    /\ UNCHANGED <<decl, source_columns, handled_columns, total_pivots, pivot_values,
                   where_clause, binders, bound_nodes, registry, result, locals>>

\* BindPivot, line 342
StageTwoStep ==
    /\ pc = "Stage1"
    /\ LET s == PivotStageTwo(bind_state, ref, select_node)
       IN /\ ref' = s.ref
          /\ bind_state' = s.bind_state
          /\ select_node' = s.node
    /\ pc' = "Stage2"
    /\ UNCHANGED <<decl, source_columns, all_columns, handled_columns, total_pivots,
                   pivot_values, where_clause, binders, bound_nodes, registry, result,
                   locals, errors>>

\* What line 195 and the reads of line 200 can do.  With as many aggregates
\* as pivot expressions the stage just runs.  Otherwise a build with
\* assertions throws at the D_ASSERT; a build without them runs on, and a
\* read past the end of internal_aggregate_names kills the process or yields
\* whatever is in memory.
StageThreeOutcomes(state) ==
    IF Len(state.internal_pivot_names) = Len(state.internal_aggregate_names)
    THEN {[kind |-> "run", str |-> ""]}
    ELSE {[kind |-> "assertion", str |-> ""]}
            \cup (IF Len(state.internal_pivot_names) > Len(state.internal_aggregate_names)
                  THEN {[kind |-> "crash", str |-> ""], [kind |-> "run", str |-> "<out of range>"]}
                  ELSE {[kind |-> "run", str |-> ""]})

\* BindPivot, line 347
StageThreeStep ==
    /\ pc = "Stage2"
    /\ \E outcome \in StageThreeOutcomes(bind_state) :
         IF outcome.kind = "run"
         THEN LET s == PivotStageThree(bind_state, select_node, outcome.str)
              IN /\ bind_state' = s.bind_state
                 /\ select_node' = s.node
                 /\ pc' = "Stage3"
                 /\ UNCHANGED errors
         ELSE /\ IF outcome.kind = "assertion"
                 THEN Throw("Assertion triggered")
                 ELSE pc' = "Crashed" /\ UNCHANGED errors
              /\ UNCHANGED <<bind_state, select_node>>
    /\ UNCHANGED <<decl, ref, source_columns, all_columns, handled_columns, total_pivots,
                   pivot_values, where_clause, binders, bound_nodes, registry, result,
                   locals>>

\* BindPivot, lines 351-353
StageFourStep ==
    /\ pc = "Stage3"
    /\ LET s == PivotStageFour(bind_state, select_node, pivot_values)
       IN IF s.error # ""
          THEN /\ Throw(s.error)
               /\ UNCHANGED select_node
          ELSE /\ select_node' = s.node
               /\ pc' = "Rewritten"
               /\ UNCHANGED errors
    /\ pivot_values' = <<>>
    /\ UNCHANGED <<decl, ref, source_columns, all_columns, handled_columns, total_pivots,
                   bind_state, where_clause, binders, bound_nodes, registry, result, locals>>

\* Bind, line 504: BindUnpivot(*star_binder, ref, std::move(all_columns), where_clause)
BindUnpivotStep ==
    /\ pc = "BindUnpivot"
    /\ \E outcome \in UnpivotOutcomes(ExpandStars(ref.pivots[1].entries, source_columns)) :
         LET u == BindUnpivot(ref, all_columns, source_columns, where_clause, outcome)
         IN /\ ref' = u.ref
            /\ select_node' = u.node
            /\ where_clause' = u.where_clause
            /\ IF u.error # "" THEN Throw(u.error)
               ELSE /\ pc' = IF u.crash THEN "Crashed" ELSE "Rewritten"
                    /\ UNCHANGED errors
    /\ all_columns' = <<>>
    /\ UNCHANGED <<decl, source_columns, handled_columns, total_pivots, pivot_values,
                   bind_state, binders, bound_nodes, registry, result, locals>>

\* Bind, lines 506-517: the generated tree is bound in a child binder
BindGeneratedStep ==
    /\ pc = "Rewritten"
    /\ binders' = Append(binders, CreateBinder("this"))
    /\ \E node_binds \in BOOLEAN :
         IF ~node_binds
         THEN /\ Throw("the generated select node does not bind")
              /\ UNCHANGED <<ref, bound_nodes, result, locals>>
         ELSE /\ bound_nodes' = Append(bound_nodes,
                    [root_index |-> GenerateTableIndex, node |-> select_node,
                     binder |-> Len(binders) + 1, child |-> 0])
              /\ result' = [binder |-> Len(binders) + 1, node |-> Len(bound_nodes) + 1]
              /\ locals' = [root_index |-> GenerateTableIndex,
                            bound_select_ptr |-> Len(bound_nodes) + 1,
                            subquery_ref |->
                                [alias |-> IF ref.alias = "" THEN "__unnamed_pivot" ELSE ref.alias,
                                 column_name_alias |-> ref.column_name_alias]]
              /\ ref' = [ref EXCEPT !.column_name_alias = <<>>]
              /\ pc' = "Bound"
              /\ UNCHANGED errors
    /\ UNCHANGED <<decl, source_columns, all_columns, handled_columns, total_pivots,
                   pivot_values, bind_state, select_node, where_clause, registry>>

\* a variant of BindFilterStep whose line 522 adds the sub-query to the
\* bind_context of this binder instead of the child binder's
BindFilterStepInThisContext ==
    /\ pc = "Bound"
    /\ where_clause # <<>>
    /\ binders' = Append(binders, CreateBinder("this"))
    /\ registry' = AddSubquery(registry, locals.root_index, locals.subquery_ref,
                               locals.bound_select_ptr)
    /\ \E node_binds \in BOOLEAN :
         IF ~node_binds
         THEN /\ Throw("the filter select node does not bind")
              /\ UNCHANGED <<bound_nodes, result, locals>>
         ELSE /\ bound_nodes' = Append(bound_nodes,
                    [root_index |-> GenerateTableIndex,
                     node |-> [EmptySelectNode EXCEPT !.select_list = <<StarExpression>>,
                                                      !.where_clause = where_clause],
                     binder |-> Len(binders) + 1, child |-> result.node])
              /\ result' = [binder |-> Len(binders) + 1, node |-> Len(bound_nodes) + 1]
              /\ locals' = [locals EXCEPT !.root_index = GenerateTableIndex,
                                          !.bound_select_ptr = Len(bound_nodes) + 1]
              /\ pc' = "Filtered"
              /\ UNCHANGED errors
    /\ where_clause' = <<>>
    /\ UNCHANGED <<decl, ref, source_columns, all_columns, handled_columns, total_pivots,
                   pivot_values, bind_state, select_node>>

\* Bind, lines 518-530: SELECT * FROM (...) WHERE <filter> in another child binder
BindFilterStep ==
    /\ pc = "Bound"
    /\ where_clause # <<>>
    /\ LET child_binder ==
               [CreateBinder("this") EXCEPT !.subqueries =
                   AddSubquery(@, locals.root_index, locals.subquery_ref,
                               locals.bound_select_ptr)]
           where_query == [EmptySelectNode EXCEPT !.select_list = <<StarExpression>>,
                                                  !.where_clause = where_clause]
       IN /\ binders' = Append(binders, child_binder)
          /\ \E node_binds \in BOOLEAN :
               IF ~node_binds
               THEN /\ Throw("the filter select node does not bind")
                    /\ UNCHANGED <<bound_nodes, result, locals>>
               ELSE /\ bound_nodes' = Append(bound_nodes,
                          [root_index |-> GenerateTableIndex, node |-> where_query,
                           binder |-> Len(binders) + 1, child |-> result.node])
                    /\ result' = [binder |-> Len(binders) + 1, node |-> Len(bound_nodes) + 1]
                    /\ locals' = [locals EXCEPT !.root_index = GenerateTableIndex,
                                                !.bound_select_ptr = Len(bound_nodes) + 1]
                    /\ pc' = "Filtered"
                    /\ UNCHANGED errors
    /\ where_clause' = <<>>
    /\ UNCHANGED <<decl, ref, source_columns, all_columns, handled_columns, total_pivots,
                   pivot_values, bind_state, select_node, registry>>

\* a variant of RegisterStep that registers the node bound first, under its
\* root index, whether or not a filter wrapper has been bound around it
RegisterStepFirstNode ==
    /\ pc \in {"Bound", "Filtered"}
    /\ where_clause = <<>>
    /\ registry' = AddSubquery(registry, bound_nodes[1].root_index, locals.subquery_ref, 1)
    /\ pc' = "Registered"
    /\ UNCHANGED <<decl, ref, source_columns, all_columns, handled_columns, total_pivots,
                   pivot_values, bind_state, select_node, where_clause, binders, bound_nodes,
                   result, locals, errors>>

\* Bind, lines 531-532
RegisterStep ==
    /\ pc \in {"Bound", "Filtered"}
    /\ where_clause = <<>>
    /\ registry' = AddSubquery(registry, locals.root_index, locals.subquery_ref,
                               locals.bound_select_ptr)
    /\ pc' = "Registered"
    /\ UNCHANGED <<decl, ref, source_columns, all_columns, handled_columns, total_pivots,
                   pivot_values, bind_state, select_node, where_clause, binders, bound_nodes,
                   result, locals, errors>>

(***************************************************************************)
(* The declarations a behaviour starts from.                               *)
(***************************************************************************)
SeqsBetween(S, m, n) == UNION {[1..k -> S] : k \in m..n}

PivotRef(source, pivots, groups, aggregates, alias, column_name_alias) ==
    [source |-> source, pivots |-> pivots, groups |-> groups, aggregates |-> aggregates,
     unpivot_names |-> <<>>, column_name_alias |-> column_name_alias,
     include_nulls |-> FALSE, alias |-> alias]
UnpivotRef(source, unpivot, unpivot_names, include_nulls, alias, column_name_alias) ==
    [source |-> source, pivots |-> <<unpivot>>, groups |-> <<>>, aggregates |-> <<>>,
     unpivot_names |-> unpivot_names, column_name_alias |-> column_name_alias,
     include_nulls |-> include_nulls, alias |-> alias]

\* the column lists ExpandStarExpression yields for the sources: a table, a
\* table with a column name in upper case, and a join whose USING column
\* expands to a COALESCE call
SalesColumns ==
    <<QualifiedColumnRef("sales", "region"), QualifiedColumnRef("sales", "quarter"),
      QualifiedColumnRef("sales", "amount")>>
SalesUpperColumns ==
    <<QualifiedColumnRef("sales", "region"), QualifiedColumnRef("sales", "quarter"),
      QualifiedColumnRef("sales", "Amount")>>
JoinedColumns ==
    <<FunctionExpression("coalesce", <<QualifiedColumnRef("sales", "region"),
                                       QualifiedColumnRef("other", "region")>>),
      QualifiedColumnRef("sales", "quarter"), QualifiedColumnRef("sales", "amount")>>
PivotSources ==
    {[source |-> BaseTableRef("sales"), columns |-> SalesColumns],
     [source |-> BaseTableRef("sales_upper"), columns |-> SalesUpperColumns],
     [source |-> BaseTableRef("joined"), columns |-> JoinedColumns]}

\* aggregates
SumAmount == FunctionExpression("sum", <<ColumnRefExpression("amount")>>)
MaxAmount == WithAlias(FunctionExpression("max", <<ColumnRefExpression("amount")>>), "total")
GoodAggregates == {SumAmount, MaxAmount}
BadAggregates ==
    {ColumnRefExpression("amount"),
     FunctionExpression("sum", <<QualifiedColumnRef("sales", "amount")>>),
     FunctionExpression("sum", <<SubqueryExpression>>),
     FunctionExpression("abs", <<WindowExpression("sum", <<ColumnRefExpression("amount")>>)>>)}
GoodAggregateLists == SeqsBetween(GoodAggregates, 1, MaxAggregates)
AggregateLists ==
    {<<SumAmount>>, <<SumAmount, MaxAmount>>}
        \cup {<<bad>> : bad \in BadAggregates}
        \cup {<<SumAmount, FunctionExpression("sum", <<QualifiedColumnRef("sales", "amount")>>)>>}

\* pivot expressions
Quarter == <<ColumnRefExpression("quarter")>>
QuarterRegion == <<ColumnRefExpression("quarter"), ColumnRefExpression("region")>>
QualifiedQuarter == <<QualifiedColumnRef("sales", "quarter")>>
PivotExpressionLists == {Quarter, QuarterRegion, QualifiedQuarter}

\* IN-list entries
Q1 == VarcharValue("Q1")
Q2 == VarcharValue("Q2")
PivotEntries ==
    {PivotColumnEntry(<<Q1>>, ""), PivotColumnEntry(<<Q2>>, ""),
     PivotColumnEntry(<<Q1, Q2>>, ""), PivotColumnEntry(<<Q2, Q2>>, "")}

\* single pivot columns: every expression list with every IN-list, and the ENUMs
SinglePivotColumns ==
    {PivotColumn(exprs, entries) :
        exprs \in PivotExpressionLists, entries \in SeqsBetween(PivotEntries, 1, MaxEntries)}
      \cup {EnumPivotColumn(Quarter, enum) : enum \in {"quarter_t", "empty_t", "int_t"}}
      \cup {EnumPivotColumn(QuarterRegion, "quarter_t")}

\* the columns of the declarations with more than one pivot column
Region == <<ColumnRefExpression("region")>>
SmallPivotColumns ==
    {PivotColumn(Quarter, <<PivotColumnEntry(<<Q1>>, ""), PivotColumnEntry(<<Q2>>, "")>>),
     PivotColumn(Quarter, <<PivotColumnEntry(<<Q1>>, ""), PivotColumnEntry(<<Q1>>, "")>>),
     PivotColumn(Region, <<PivotColumnEntry(<<VarcharValue("A")>>, "")>>),
     EnumPivotColumn(Region, "quarter_t")}
PivotLists ==
    {<<column>> : column \in SinglePivotColumns}
      \cup SeqsBetween(SmallPivotColumns, 2, MaxPivots)

\* declarations that mainly differ in what validation sees
ValidationDeclarations ==
    {[ref |-> PivotRef(BaseTableRef("sales"), pivots, <<>>, aggregates, "", <<>>),
      columns |-> SalesColumns] :
        pivots \in PivotLists, aggregates \in AggregateLists}

\* declarations whose number of pivot values is at, or one below, the limit
LargePivotLists ==
    {<<EnumPivotColumn(Quarter, "almost_t")>>,
     <<EnumPivotColumn(Quarter, "limit_t")>>,
     <<EnumPivotColumn(Quarter, "hundred_t"), EnumPivotColumn(Region, "hundred_t")>>,
     <<EnumPivotColumn(Quarter, "ninety_nine_t"), EnumPivotColumn(Region, "hundred_one_t")>>,
     [i \in 1..16 |-> EnumPivotColumn(Quarter, "sixteen_t")],
     [i \in 1..15 |-> EnumPivotColumn(Quarter, "sixteen_t")]}
LargeDeclarations ==
    {[ref |-> PivotRef(BaseTableRef("sales"), pivots, <<>>, aggregates, "", <<>>),
      columns |-> SalesColumns] :
        pivots \in LargePivotLists, aggregates \in {<<SumAmount>>, <<ColumnRefExpression("amount")>>}}

\* declarations that mainly differ in what the stages see
RewritePivotLists ==
    {<<PivotColumn(Quarter, <<PivotColumnEntry(<<Q1>>, ""), PivotColumnEntry(<<Q2>>, "")>>)>>,
     <<PivotColumn(Quarter, <<PivotColumnEntry(<<Q1>>, "first"), PivotColumnEntry(<<Q2>>, "")>>)>>,
     <<EnumPivotColumn(Quarter, "quarter_t")>>,
     <<PivotColumn(<<WithAlias(ColumnRefExpression("quarter"), "q")>>,
                   <<PivotColumnEntry(<<Q2>>, ""), PivotColumnEntry(<<Q1>>, "")>>)>>,
     <<PivotColumn(<<WithAlias(ColumnRefExpression("quarter"), "__internal_pivot_aggregate1")>>,
                   <<PivotColumnEntry(<<Q1>>, "")>>)>>,
     <<PivotColumn(QuarterRegion, <<PivotColumnEntry(<<Q1, VarcharValue("A")>>, "")>>)>>}
Naming == {[alias |-> "", column_name_alias |-> <<>>],
           [alias |-> "p", column_name_alias |-> <<"x">>]}
RewriteDeclarations ==
    {[ref |-> PivotRef(src.source, pivots, groups, aggregates, naming.alias,
                       naming.column_name_alias),
      columns |-> src.columns] :
        src \in PivotSources, pivots \in RewritePivotLists, groups \in {<<>>, <<"region">>},
        aggregates \in GoodAggregateLists, naming \in Naming}

\* declarations that mainly differ in the values and aliases ConstructPivots sees
NamedEntries ==
    {PivotColumnEntry(values, alias) :
        values \in {<<VarcharValue("")>>, <<VarcharValue("a")>>,
                    <<VarcharValue(""), VarcharValue("a")>>,
                    <<VarcharValue("a"), VarcharValue("")>>},
        alias \in {"", "x"}}
NamedPivotColumns ==
    {PivotColumn(Quarter, <<PivotColumnEntry(<<VarcharValue("")>>, ""),
                            PivotColumnEntry(<<VarcharValue("a")>>, "")>>),
     PivotColumn(Region, <<PivotColumnEntry(<<VarcharValue("b")>>, "")>>),
     PivotColumn(Region, <<PivotColumnEntry(<<VarcharValue("a")>>, "x"),
                           PivotColumnEntry(<<VarcharValue("")>>, "")>>)}
NamedPivotLists ==
    {<<PivotColumn(exprs, entries)>> :
        exprs \in {Quarter, QuarterRegion}, entries \in SeqsBetween(NamedEntries, 1, MaxEntries)}
      \cup SeqsBetween(NamedPivotColumns, 2, MaxPivots)
EnumerationDeclarations ==
    {[ref |-> PivotRef(BaseTableRef("sales"), pivots, <<>>, <<SumAmount>>, "", <<>>),
      columns |-> SalesColumns] : pivots \in NamedPivotLists}

\* UNPIVOT declarations
TColumns ==
    <<QualifiedColumnRef("t", "id"), QualifiedColumnRef("t", "q1"), QualifiedColumnRef("t", "q2")>>
TwiceColumns ==
    <<QualifiedColumnRef("t", "id"), QualifiedColumnRef("t", "q1"),
      QualifiedColumnRef("t", "q2"), QualifiedColumnRef("u", "Q1")>>
UsingColumns ==
    <<FunctionExpression("coalesce", <<QualifiedColumnRef("t", "id"),
                                       QualifiedColumnRef("u", "id")>>),
      QualifiedColumnRef("t", "q1"), QualifiedColumnRef("t", "q2")>>
UnpivotSources ==
    {[source |-> BaseTableRef("t"), columns |-> TColumns],
     [source |-> BaseTableRef("twice"), columns |-> TwiceColumns]}
UnpivotEntries ==
    {PivotColumnEntry(<<VarcharValue("q1")>>, ""),
     PivotColumnEntry(<<VarcharValue("Q1")>>, ""),
     PivotColumnEntry(<<VarcharValue("q2")>>, ""),
     PivotColumnEntry(<<VarcharValue("q2")>>, "second"),
     PivotColumnEntry(<<VarcharValue("q1"), VarcharValue("q2")>>, ""),
     PivotColumnEntry(<<VarcharValue("zz")>>, ""),
     StarEntry("*"), StarEntry("* EXCLUDE (id, q1, q2, Q1)")}
UnpivotDeclarations ==
    {[ref |-> UnpivotRef(src.source, UnpivotColumn(<<"quarter">>, entries), unpivot_names,
                         include_nulls, naming.alias, naming.column_name_alias),
      columns |-> src.columns] :
        src \in UnpivotSources, entries \in SeqsBetween(UnpivotEntries, 1, MaxEntries),
        unpivot_names \in {<<"amount">>, <<"amount", "amount2">>},
        include_nulls \in BOOLEAN, naming \in Naming}
      \cup {[ref |-> UnpivotRef(BaseTableRef("using"), UnpivotColumn(<<"quarter">>, <<entry>>),
                                <<"amount">>, FALSE, "", <<>>),
             columns |-> UsingColumns] : entry \in UnpivotEntries}

\* declarations without a source
SourcelessDeclarations ==
    {[ref |-> PivotRef(NullTableRef, CHOOSE pivots \in RewritePivotLists : TRUE, <<>>,
                       <<SumAmount>>, "", <<>>),
      columns |-> <<>>],
     [ref |-> UnpivotRef(NullTableRef,
                         UnpivotColumn(<<"quarter">>, <<PivotColumnEntry(<<VarcharValue("q1")>>, "")>>),
                         <<"amount">>, FALSE, "", <<>>),
      columns |-> <<>>]}

Declarations ==
    ValidationDeclarations \cup LargeDeclarations \cup RewriteDeclarations
        \cup EnumerationDeclarations
        \cup UnpivotDeclarations \cup SourcelessDeclarations

\* the sub-query the enclosing binder has registered before the call
Registered0 ==
    <<[index |-> 0, alias |-> "t0", column_name_alias |-> <<>>, subquery |-> 0]>>

Init ==
    \E d \in Declarations :
        /\ decl = d.ref
        /\ ref = d.ref
        /\ source_columns = d.columns
        /\ pc = "Unvalidated"
        /\ all_columns = <<>>
        /\ handled_columns = {}
        /\ total_pivots = Idx(1)
        /\ pivot_values = <<>>
        /\ bind_state = EmptyBindState
        /\ select_node = EmptySelectNode
        /\ where_clause = <<>>
        /\ binders = <<>>
        /\ bound_nodes = <<>>
        /\ registry = Registered0
        /\ result = NoResult
        /\ locals = NoLocals
        /\ errors = <<>>

Next ==
    \/ StartBind
    \/ ValidatePivotStep
    \/ ConstructPivotsStep
    \/ StageOneStep
    \/ StageTwoStep
    \/ StageThreeStep
    \/ StageFourStep
    \/ BindUnpivotStep
    \/ BindGeneratedStep
    \/ BindFilterStep
    \/ RegisterStep

Spec == Init /\ [][Next]_vars

(***************************************************************************)
(* What the claims speak about, stated on the declaration as the caller    *)
(* handed it over (decl), independently of the operators above.            *)
(***************************************************************************)
StartErrors == {"Pivot without a source!?", "the source does not bind"}

\* BindPivot has been called / has left its validation part
BindPivotCalled ==
    /\ decl.aggregates # <<>>
    /\ pc # "Unvalidated"
    /\ ~(pc = "Failed" /\ errors[1] \in StartErrors)
ValidationOver == BindPivotCalled /\ pc # "BindPivot"

\* BindUnpivot has been called and has ended
UnpivotOver ==
    /\ decl.aggregates = <<>>
    /\ pc \notin {"Unvalidated", "BindUnpivot"}
    /\ ~(pc = "Failed" /\ errors[1] \in StartErrors)

\* the IN-list of a pivot column of the declaration: its entries, and the
\* values of its ENUM if it names one
InList(pivot) ==
    pivot.entries \o
        (IF pivot.pivot_enum # "" /\ GetType(pivot.pivot_enum).id = "ENUM"
         THEN [i \in 1..Len(GetType(pivot.pivot_enum).values) |->
                 PivotColumnEntry(<<VarcharValue(GetType(pivot.pivot_enum).values[i])>>,
                                  GetType(pivot.pivot_enum).values[i])]
         ELSE <<>>)

\* k1 * ... * kn as far as it matters here: a result above the limit
\* stands for every product above the limit
RECURSIVE ProductFrom(_, _)
ProductFrom(counts, i) ==
    IF i > Len(counts) THEN 1
    ELSE LET product == counts[i] * ProductFrom(counts, i + 1)
         IN IF product > PIVOT_EXPRESSION_LIMIT THEN PIVOT_EXPRESSION_LIMIT + 1 ELSE product
EntryCounts(pivots) == [i \in 1..Len(pivots) |-> Len(InList(pivots[i]))]
EntryCountProduct(pivots) == ProductFrom(EntryCounts(pivots), 1)

\* the name of one level: the alias or, without one, the joined value strings
LevelName(entry) ==
    IF entry.alias # "" THEN entry.alias
    ELSE Join([v \in 1..Len(entry.values) |-> ValueToString(entry.values[v])], "_")

\* The PivotValueElements as the enumeration is described: the t-th
\* combination chooses, at level i, entry ((t - 1) div (k(i+1) * ... * kn)) mod ki
\* (counted from 0), so that the first pivot column varies slowest.
DescribedElements(pivots) ==
    LET lists == [i \in 1..Len(pivots) |-> InList(pivots[i])] \o <<>>
        counts == [i \in 1..Len(pivots) |-> Len(lists[i])] \o <<>>
        below == [i \in 1..Len(pivots) |-> ProductFrom(counts, i + 1)] \o <<>>
        chosen(t, i) == lists[i][(((t - 1) \div below[i]) % counts[i]) + 1]
    IN [t \in 1..ProductFrom(counts, 1) |->
          [values |-> Flatten([i \in 1..Len(pivots) |-> chosen(t, i).values], 1),
           name |-> Join([i \in 1..Len(pivots) |-> LevelName(chosen(t, i))], "_")]]

\* every expression inside an expression, the expression itself included
RECURSIVE Subexpressions(_)
Subexpressions(expr) ==
    {expr} \cup UNION {Subexpressions(expr.children[i]) : i \in 1..Len(expr.children)}

\* the malformed shapes of a PIVOT declaration
NonFunctionAggregate(d) ==
    \E i \in 1..Len(d.aggregates) : d.aggregates[i].type # "FUNCTION"
SubqueryOrWindowAggregate(d) ==
    \E i \in 1..Len(d.aggregates) : \E e \in Subexpressions(d.aggregates[i]) :
        e.type \in {"SUBQUERY", "WINDOW_AGGREGATE"}
QualifiedColumn(d) ==
    \/ \E i \in 1..Len(d.aggregates) : \E e \in Subexpressions(d.aggregates[i]) :
          e.type = "COLUMN_REF" /\ e.table # ""
    \/ \E i \in 1..Len(d.pivots) : \E k \in 1..Len(d.pivots[i].pivot_expressions) :
          \E e \in Subexpressions(d.pivots[i].pivot_expressions[k]) :
              e.type = "COLUMN_REF" /\ e.table # ""
UnresolvedEnum(d) ==
    \E i \in 1..Len(d.pivots) :
        d.pivots[i].pivot_enum # "" /\ GetType(d.pivots[i].pivot_enum).id # "ENUM"
DuplicateTuple(d) ==
    \E i \in 1..Len(d.pivots) :
        LET list == InList(d.pivots[i])
        IN Cardinality({list[e].values : e \in 1..Len(list)}) < Len(list)
ArityMismatch(d) ==
    \E i \in 1..Len(d.pivots) :
        LET list == InList(d.pivots[i])
        IN \E e \in 1..Len(list) : Len(list[e].values) # Len(d.pivots[i].pivot_expressions)
AtCeiling(d) == EntryCountProduct(d.pivots) = PIVOT_EXPRESSION_LIMIT

\* Bind has failed with exactly this error
RejectedWith(message) == pc = "Failed" /\ errors = <<message>>
LimitError == "Pivot column limit exceeded"
DuplicateError == "was specified multiple times in the IN clause"

\* nothing has been enumerated and no stage has been built
NothingBuilt ==
    /\ pivot_values = <<>>
    /\ select_node = EmptySelectNode
    /\ bind_state = EmptyBindState
    /\ ref.source = decl.source
    /\ bound_nodes = <<>>
    /\ result = NoResult

\* C1: ConstructPivots appends exactly k1*...*kn elements in depth-first
\* order, each with the concatenated values of the chosen entries and with
\* the underscore-join of the levels' alias-or-value-strings as its name.
C1_UnderscoreJoinedNames ==
    pc = "Enumerated" => pivot_values = DescribedElements(decl.pivots)

\* C2 as stated: a product of exactly 10,000 is rejected with the limit
\* error, a product of 9,999 is not, and the check precedes ConstructPivots
\* and every stage.
C2_LimitErrorAtCeiling ==
    ValidationOver =>
        /\ EntryCountProduct(decl.pivots) = PIVOT_EXPRESSION_LIMIT => RejectedWith(LimitError)
        /\ EntryCountProduct(decl.pivots) = PIVOT_EXPRESSION_LIMIT - 1 => ~RejectedWith(LimitError)
        /\ RejectedWith(LimitError) => NothingBuilt
        /\ pc \in {"Enumerated", "Stage1", "Stage2", "Stage3", "Rewritten"} =>
              EntryCountProduct(decl.pivots) < PIVOT_EXPRESSION_LIMIT

\* the checks BindPivot makes before the limit check find nothing
PassesEarlierChecks(d) ==
    /\ ~NonFunctionAggregate(d)
    /\ ~SubqueryOrWindowAggregate(d)
    /\ ~QualifiedColumn(d)
    /\ ~UnresolvedEnum(d)
    /\ ~DuplicateTuple(d)
    /\ ~ArityMismatch(d)

\* C2, amended: a declaration that passes the checks made before the limit
\* check is rejected with the limit error when its product is exactly
\* 10,000; a product of 9,999 never raises the limit error; the check
\* precedes ConstructPivots and every stage, so a declaration rejected by it
\* enumerates nothing and builds no tree.
C2_LimitErrorAtCeilingWhenReached ==
    ValidationOver =>
        /\ (EntryCountProduct(decl.pivots) = PIVOT_EXPRESSION_LIMIT /\ PassesEarlierChecks(decl))
              => RejectedWith(LimitError)
        /\ EntryCountProduct(decl.pivots) = PIVOT_EXPRESSION_LIMIT - 1 => ~RejectedWith(LimitError)
        /\ RejectedWith(LimitError) => NothingBuilt
        /\ pc \in {"Enumerated", "Stage1", "Stage2", "Stage3", "Rewritten"} =>
              EntryCountProduct(decl.pivots) < PIVOT_EXPRESSION_LIMIT

\* a declaration of two pivot columns of 100 entries each has been rejected
\* with the limit error
C2_Witness ==
    /\ ValidationOver
    /\ Len(decl.pivots) = 2
    /\ EntryCountProduct(decl.pivots) = PIVOT_EXPRESSION_LIMIT
    /\ PassesEarlierChecks(decl)
    /\ RejectedWith(LimitError)
    /\ NothingBuilt

\* C3 as stated: identical value tuples in one IN-list give the 'specified
\* multiple times' error, and that error is never raised when all entries
\* of every list differ.
C3_DuplicateErrorIffDuplicate ==
    ValidationOver =>
        /\ DuplicateTuple(decl) => RejectedWith(DuplicateError)
        /\ ~DuplicateTuple(decl) => ~RejectedWith(DuplicateError)

\* C3, amended: identical value tuples in one IN-list make BindPivot fail,
\* with the 'specified multiple times' error if the declaration has no
\* other shape that validation rejects before it (a malformed aggregate, a
\* qualified column, a name that is no ENUM, an entry of the wrong arity);
\* the error is never raised when all entries of every list differ.
C3_DuplicateRejected ==
    ValidationOver =>
        /\ DuplicateTuple(decl) => pc = "Failed" /\ NothingBuilt
        /\ (/\ DuplicateTuple(decl)
            /\ ~NonFunctionAggregate(decl)
            /\ ~SubqueryOrWindowAggregate(decl)
            /\ ~QualifiedColumn(decl)
            /\ ~UnresolvedEnum(decl)
            /\ ~ArityMismatch(decl)) => RejectedWith(DuplicateError)
        /\ ~DuplicateTuple(decl) => ~RejectedWith(DuplicateError)

\* a two-expression pivot column with the same pair twice has been rejected
\* with the duplicate error
C3_Witness ==
    /\ ValidationOver
    /\ Len(decl.pivots[1].pivot_expressions) = 2
    /\ DuplicateTuple(decl)
    /\ RejectedWith(DuplicateError)

\* the shapes C4 lists
Malformed(d) ==
    \/ NonFunctionAggregate(d)
    \/ SubqueryOrWindowAggregate(d)
    \/ QualifiedColumn(d)
    \/ DuplicateTuple(d)
    \/ ArityMismatch(d)
    \/ AtCeiling(d)

\* C4: BindPivot on a declaration with one of the malformed shapes fails
\* before PivotStageOne is entered: it never gets beyond validation, the
\* declaration keeps its source and no SelectNode exists.
C4_MalformedFailsBeforeStageOne ==
    (BindPivotCalled /\ Malformed(decl)) =>
        /\ pc \in {"BindPivot", "Failed"}
        /\ NothingBuilt
        /\ pc = "Failed" => Len(errors) = 1

\* a declaration whose second aggregate holds a qualified column has failed
C4_Witness ==
    /\ BindPivotCalled
    /\ Len(decl.aggregates) = 2
    /\ QualifiedColumn(decl)
    /\ RejectedWith("PIVOT expression cannot contain qualified columns")
    /\ NothingBuilt

\* C5: a Bind that ends in an error leaves the registry of the enclosing
\* binder as it was, and exactly one error reaches the caller.
C5_FailedBindRegistersNothing ==
    /\ pc = "Failed" => registry = Registered0 /\ Len(errors) = 1
    /\ pc # "Failed" => errors = <<>>

\* the Bind failed at the last step that can fail, binding the filter wrapper
C5_Witness ==
    /\ RejectedWith("the filter select node does not bind")
    /\ Len(bound_nodes) = 1
    /\ registry = Registered0

\* the steps of Bind the description names
Step(p) ==
    IF p \in {"Unvalidated", "BindPivot", "Validated", "Enumerated", "Stage1", "Stage2",
              "Stage3", "BindUnpivot"}
    THEN "Unvalidated" ELSE p
StepOrder ==
    {<<"Unvalidated", "Rewritten">>, <<"Rewritten", "Bound">>, <<"Bound", "Filtered">>,
     <<"Bound", "Registered">>, <<"Filtered", "Registered">>}

\* what registration adds to the registry of the enclosing binder
RegisteredEntry ==
    [index |-> bound_nodes[Len(bound_nodes)].root_index,
     alias |-> IF decl.alias = "" THEN "__unnamed_pivot" ELSE decl.alias,
     column_name_alias |-> decl.column_name_alias,
     subquery |-> Len(bound_nodes)]

\* C6: a Bind that does not fail steps Unvalidated -> Rewritten -> Bound ->
\* (Filtered, only when the unpivot path produced a null-exclusion filter,
\* and then always) -> Registered; the generated tree is bound in a fresh
\* binder whose parent is this binder, the SELECT * ... WHERE wrapper in
\* another one; the registry changes only in the last step, once, by the
\* entry with the alias (or '__unnamed_pivot'), the root index of the
\* outermost bound node and the caller's column alias list.
C6_StepsAndRegistration ==
    [][/\ Step(pc') # Step(pc) =>
            \/ <<Step(pc), Step(pc')>> \in StepOrder
            \/ pc' \in {"Failed", "Crashed"} /\ pc \notin {"Registered", "Failed", "Crashed"}
       /\ (pc = "Rewritten" /\ pc' = "Bound") =>
            /\ binders' = Append(binders, [parent |-> "this", subqueries |-> <<>>])
            /\ bound_nodes' = <<[root_index |-> 1, node |-> select_node,
                                 binder |-> Len(binders'), child |-> 0]>>
       /\ (pc = "Bound" /\ pc' = "Filtered") =>
            /\ decl.aggregates = <<>> /\ ~decl.include_nulls /\ where_clause # <<>>
            /\ Len(binders') = Len(binders) + 1
            /\ binders'[Len(binders')].parent = "this"
            /\ Len(bound_nodes') = 2
            /\ bound_nodes'[1] = bound_nodes[1]
            /\ bound_nodes'[2].binder = Len(binders')
            /\ bound_nodes'[2].binder # bound_nodes'[1].binder
            /\ bound_nodes'[2].child = 1
            /\ bound_nodes'[2].node.select_list = <<StarExpression>>
            /\ bound_nodes'[2].node.where_clause = where_clause
       /\ (pc = "Bound" /\ pc' = "Registered") => where_clause = <<>>
       /\ registry' # registry =>
            /\ pc # "Registered" /\ pc' = "Registered"
            /\ registry' = Append(registry, RegisteredEntry)
       /\ (pc # "Registered" /\ pc' = "Registered") => registry' # registry
      ]_vars

\* a Bind with a filter wrapper has registered the wrapper under the default alias
C6_Witness ==
    /\ pc = "Registered"
    /\ Len(bound_nodes) = 2
    /\ registry = Append(Registered0,
                         [index |-> bound_nodes[2].root_index, alias |-> "__unnamed_pivot",
                          column_name_alias |-> <<>>, subquery |-> 2])

\* the aliases of a select list
Aliases(select_list) == [i \in 1..Len(select_list) |-> select_list[i].alias]

\* the display names of the grouping columns: the declared groups or,
\* without any, the source columns the declaration does not reference
GroupDisplayNames ==
    IF decl.groups # <<>> THEN decl.groups
    ELSE LET kept == SelectSeq(source_columns, LAMBDA c : Lower(c.name) \notin handled_columns)
         IN [i \in 1..Len(kept) |-> kept[i].name]

\* the select list Stage 4 is described to build from the bind state and
\* the enumerated elements
DescribedStageFour(state, values) ==
    LET maps == Len(state.internal_map_names)
        element(k) == values[((k - 1) \div maps) + 1]
        map(k) == state.internal_map_names[((k - 1) % maps) + 1]
    IN [g \in 1..Len(state.internal_group_names) |->
           [ColumnRefExpression(state.internal_group_names[g]) EXCEPT
               !.alias = GroupDisplayNames[g]]]
       \o [k \in 1..(Len(values) * maps) |->
           [type |-> "FUNCTION", name |-> "array_extract", table |-> "", value |-> NullValue,
            alias |-> element(k).name,
            children |-> <<[type |-> "FUNCTION", name |-> "map_extract", table |-> "",
                            value |-> NullValue, alias |-> "",
                            children |-> <<ColumnRefExpression(map(k)),
                                           ConstantExpression(element(k).values[1])>>],
                           ConstantExpression(IntegerValue(1))>>]]

\* PIVOT(sales ON quarter IN (Q1, Q2) USING sum(amount))
SalesExample ==
    /\ decl = PivotRef(BaseTableRef("sales"),
                       <<PivotColumn(Quarter, <<PivotColumnEntry(<<Q1>>, ""),
                                                PivotColumnEntry(<<Q2>>, "")>>)>>,
                       <<>>, <<SumAmount>>, "", <<>>)
    /\ source_columns = SalesColumns

\* C7: the select list of the tree BindPivot returns is the grouping columns
\* in Stage-1 order, each aliased to its display name, followed by, for
\* every enumerated element in enumeration order and every map column, one
\* array_extract(map_extract(map, value), 1) aliased to the element's name;
\* the sales example gives the columns region, Q1, Q2.
C7_StageFourSelectList ==
    [][(pc = "Stage3" /\ pc' = "Rewritten") =>
          /\ select_node'.select_list = DescribedStageFour(bind_state, pivot_values)
          /\ Len(bind_state.internal_group_names) = Len(GroupDisplayNames)
          /\ SalesExample => Aliases(select_node'.select_list) = <<"region", "Q1", "Q2">>
      ]_vars

\* BindPivot has returned the tree of the sales example
C7_Witness ==
    /\ pc = "Rewritten"
    /\ SalesExample
    /\ Aliases(select_node.select_list) = <<"region", "Q1", "Q2">>
    /\ select_node.select_list[2].name = "array_extract"

\* the entries of the UNPIVOT declaration, star expressions expanded
DeclaredEntries == ExpandStars(decl.pivots[1].entries, source_columns)

\* the name of a column of the source; a USING column is a COALESCE of the
\* two columns of that name
SourceColumnName(c) == IF c.type = "COLUMN_REF" THEN c.name ELSE c.children[1].name

\* entry i names (case-insensitively) the column called name
Names(i, name) ==
    \E v \in 1..Len(DeclaredEntries[i].values) :
        Lower(ValueToString(DeclaredEntries[i].values[v])) = Lower(name)

\* BindUnpivot has returned a tree
UnpivotReturned == UnpivotOver /\ pc \notin {"Failed", "Crashed"}

\* the leading column references of a select list
RECURSIVE PassedThrough(_, _)
PassedThrough(select_list, i) ==
    IF i > Len(select_list) \/ select_list[i].type # "COLUMN_REF" THEN <<>>
    ELSE <<select_list[i]>> \o PassedThrough(select_list, i + 1)

\* C8 as stated: exactly the source columns named by no entry are passed
\* through, in source order; a declaration in which two entries name the
\* same column is not accepted; a declaration in which an entry names a
\* column absent from the source fails with the 'no matching entry' error.
C8_HandledPartition ==
    UnpivotOver =>
        /\ UnpivotReturned =>
              PassedThrough(select_node.select_list, 1) =
                  SelectSeq(source_columns,
                            LAMBDA c : \A i \in 1..Len(DeclaredEntries) :
                                          ~Names(i, SourceColumnName(c)))
        /\ (\E i, j \in 1..Len(DeclaredEntries) :
               /\ i # j
               /\ \E c \in 1..Len(source_columns) :
                     Names(i, SourceColumnName(source_columns[c]))
                        /\ Names(j, SourceColumnName(source_columns[c])))
              => ~UnpivotReturned
        /\ (\E i \in 1..Len(DeclaredEntries) : \E v \in 1..Len(DeclaredEntries[i].values) :
               \A c \in 1..Len(source_columns) :
                   Lower(SourceColumnName(source_columns[c])) #
                       Lower(ValueToString(DeclaredEntries[i].values[v])))
              => RejectedWith("referenced in UNPIVOT but no matching entry was found in the table")

\* the value columns of the unpivot tree: the unnests of a list_value call
ValueColumns(node) ==
    SelectSeq(node.select_list,
              LAMBDA e : e.type = "FUNCTION" /\ e.name = "unnest"
                            /\ e.children[1].type = "FUNCTION")

\* the predicates an AND-conjunction combines, from left to right
RECURSIVE Conjuncts(_)
Conjuncts(expr) ==
    IF expr.type = "CONJUNCTION_AND"
    THEN Conjuncts(expr.children[1]) \o Conjuncts(expr.children[2])
    ELSE <<expr>>
Predicates(where) == IF where = <<>> THEN <<>> ELSE Conjuncts(where[1])

\* one IS NOT NULL predicate per value column, naming its alias
DescribedPredicates(node) ==
    [i \in 1..Len(ValueColumns(node)) |->
        [type |-> "OPERATOR_IS_NOT_NULL", name |-> "", table |-> "", value |-> NullValue,
         alias |-> "", children |-> <<ColumnRefExpression(ValueColumns(node)[i].alias)>>]]

\* C9: with include_nulls false the filter BindUnpivot produces is the AND
\* of one IS NOT NULL predicate per value column, naming its alias; the
\* unpivot tree itself has no WHERE clause, the filter is the WHERE clause
\* of the SELECT * level Bind wraps around it; with include_nulls true
\* there is no filter and no wrapping level.
C9_NullExclusionFilter ==
    UnpivotReturned =>
        LET described == IF decl.include_nulls THEN <<>> ELSE DescribedPredicates(select_node)
        IN /\ select_node.where_clause = <<>>
           /\ bound_nodes # <<>> => bound_nodes[1].node = select_node
           /\ pc \in {"Rewritten", "Bound"} => Predicates(where_clause) = described
           /\ pc \in {"Filtered", "Registered"} =>
                 /\ where_clause = <<>>
                 /\ Len(bound_nodes) = (IF described = <<>> THEN 1 ELSE 2)
                 /\ Len(bound_nodes) = 2 =>
                       /\ bound_nodes[2].node.select_list = <<StarExpression>>
                       /\ Predicates(bound_nodes[2].node.where_clause) = described
           /\ decl.include_nulls => where_clause = <<>> /\ Len(bound_nodes) <= 1

\* an unpivot with two value columns and null exclusion has been registered
C9_Witness ==
    /\ UnpivotReturned
    /\ pc = "Registered"
    /\ ~decl.include_nulls
    /\ Len(ValueColumns(select_node)) = 2
    /\ Len(bound_nodes) = 2
    /\ Len(Predicates(bound_nodes[2].node.where_clause)) = 2

\* the source column an entry's value names
ColumnNamed(value) ==
    LET c == CHOOSE c \in 1..Len(source_columns) :
                /\ Lower(source_columns[c].name) = Lower(ValueToString(value))
                /\ \A b \in 1..(c - 1) : Lower(source_columns[b].name) # Lower(source_columns[c].name)
    IN source_columns[c].name

\* the display name of an entry
DisplayName(entry) ==
    IF entry.alias # "" THEN entry.alias
    ELSE Join([v \in 1..Len(entry.values) |-> ColumnNamed(entry.values[v])], "_")

\* UNPIVOT(t ON (q1, q2) INTO NAME quarter VALUE amount)
UnpivotExample ==
    /\ decl = UnpivotRef(BaseTableRef("t"),
                         UnpivotColumn(<<"quarter">>,
                                       <<PivotColumnEntry(<<VarcharValue("q1")>>, ""),
                                         PivotColumnEntry(<<VarcharValue("q2")>>, "")>>),
                         <<"amount">>, FALSE, "", <<>>)
    /\ source_columns = TColumns

\* C10 as stated: the tree BindUnpivot returns selects the unhandled source
\* columns, then one unnest of the constant list of the entries' display
\* names in declaration order, then for each value position v one
\* unnest(list_value(...)) whose i-th element is the column reference of
\* entry i's v-th value; the example gives the columns id, quarter, amount.
C10_UnpivotSelectList ==
    UnpivotReturned =>
        LET list == select_node.select_list
            through == Len(PassedThrough(list, 1))
            key == list[through + 1]
            positions == Len(list) - through - 1
        IN /\ Len(list) > through
           /\ key.type = "FUNCTION" /\ key.name = "unnest"
           /\ key.children = <<ConstantExpression(ListValue(
                  [i \in 1..Len(DeclaredEntries) |->
                      VarcharValue(DisplayName(DeclaredEntries[i]))]))>>
           /\ positions = Len(decl.unpivot_names)
           /\ UnpivotExample =>
                 [i \in 1..Len(list) |-> GetName(list[i])] = <<"id", "quarter", "amount">>
           /\ \A v \in 1..positions :
                 LET column == list[through + 1 + v]
                 IN /\ column.type = "FUNCTION" /\ column.name = "unnest"
                    /\ Len(column.children) = 1
                    /\ column.children[1].type = "FUNCTION"
                    /\ column.children[1].name = "list_value"
                    /\ Len(column.children[1].children) = Len(DeclaredEntries)
                    /\ \A i \in 1..Len(DeclaredEntries) :
                          /\ v <= Len(DeclaredEntries[i].values)
                          /\ column.children[1].children[i] =
                                ColumnRefExpression(ValueToString(DeclaredEntries[i].values[v]))

\* the map columns of a Stage 3 select list
MapColumns(node) ==
    SelectSeq(node.select_list, LAMBDA e : e.type = "FUNCTION" /\ e.name = "map")

\* C11 as stated: whatever the numbers of aggregates and pivot expressions,
\* PivotStageThree emits exactly one map column per aggregate of the
\* declaration, the i-th built from a pivot-value list and the list of the
\* i-th aggregate's values; no aggregate is dropped and the stage does not
\* fail.
C11_OneMapPerAggregate ==
    ValidationOver =>
        /\ ~RejectedWith("Assertion triggered")
        /\ ~(pc = "Crashed")
        /\ pc = "Stage3" =>
              LET maps == MapColumns(select_node)
              IN /\ Len(maps) = Len(decl.aggregates)
                 /\ Len(bind_state.internal_map_names) = Len(decl.aggregates)
                 /\ \A i \in 1..Len(maps) :
                       /\ Len(maps[i].children) = 2
                       /\ maps[i].children[1].name \in
                             {bind_state.internal_pivot_names[k] :
                                 k \in 1..Len(bind_state.internal_pivot_names)}
                       /\ i <= Len(bind_state.internal_aggregate_names)
                       /\ maps[i].children[2] =
                             ColumnRefExpression(bind_state.internal_aggregate_names[i])

\* the pivot expressions of the declaration, column by column
DeclaredPivotExpressions ==
    Flatten([i \in 1..Len(decl.pivots) |-> decl.pivots[i].pivot_expressions], 1)

\* the lower-cased names of the columns the declaration's pivot expressions
\* and aggregates reference
ReferencedColumns ==
    LET exprs == DeclaredPivotExpressions \o decl.aggregates
        inside == UNION {Subexpressions(exprs[i]) : i \in 1..Len(exprs)}
    IN {Lower(e.name) : e \in {x \in inside : x.type = "COLUMN_REF"}}

\* the grouping columns as described
DescribedGroups ==
    IF decl.groups = <<>>
    THEN SelectSeq(source_columns, LAMBDA c : Lower(c.name) \notin ReferencedColumns)
    ELSE [i \in 1..Len(decl.groups) |-> ColumnRefExpression(decl.groups[i])]

\* a select list without its aliases
WithoutAliases(select_list) ==
    [i \in 1..Len(select_list) |-> [select_list[i] EXCEPT !.alias = ""]]

\* the positional references 1..n
Positions(n) == [i \in 1..n |-> ConstantExpression(IntegerValue(i))]

\* C12: the Stage 1 select list starts with the grouping columns (without a
\* row list the source columns no pivot expression and no aggregate
\* references, compared case-insensitively, in source order; with a row
\* list the listed rows in order), then the pivot expressions, then the
\* aggregates; its GROUP BY references by position exactly the grouping
\* columns and the pivot expressions; Stage 2 groups by the internal group
\* aliases only.
C12_StageOneGrouping ==
    LET groups == Len(DescribedGroups)
        pivots == Len(DeclaredPivotExpressions)
    IN /\ (ValidationOver /\ pc = "Stage1") =>
             /\ WithoutAliases(select_node.select_list) =
                   WithoutAliases(DescribedGroups \o DeclaredPivotExpressions \o decl.aggregates)
             /\ select_node.group_expressions = Positions(groups + pivots)
       /\ (ValidationOver /\ pc = "Stage2") =>
             LET stage1 == select_node.from_table.node[1]
             IN /\ select_node.group_expressions = Positions(groups)
                /\ Len(select_node.select_list) >= groups
                /\ \A gr \in 1..groups :
                      select_node.select_list[gr] =
                          WithAlias(ColumnRefExpression(stage1.select_list[gr].alias),
                                    stage1.select_list[gr].alias)
                /\ \A i \in (groups + 1)..Len(select_node.select_list) :
                      select_node.select_list[i].type = "FUNCTION"
                         /\ select_node.select_list[i].name = "list"

\* Stage 1 has grouped a source with a column named Amount, which the
\* aggregate references as amount, by region alone
C12_Witness ==
    /\ ValidationOver
    /\ pc = "Stage1"
    /\ decl.groups = <<>>
    /\ source_columns = SalesUpperColumns
    /\ Len(DescribedGroups) = 1
    /\ select_node.group_expressions = Positions(2)
    /\ Len(select_node.select_list) = 3

\* the Stage 1 node: the innermost node of the tree built so far
RECURSIVE Innermost(_)
Innermost(node) ==
    IF node.from_table.kind = "SUBQUERY" THEN Innermost(node.from_table.node[1]) ELSE node

\* the names the per-category counters can produce for a list of n names
CounterNames(n) ==
    {prefix \o ToString(k) :
        prefix \in {"__internal_pivot_group", "__internal_pivot_ref",
                    "__internal_pivot_aggregate", "__internal_pivot_name",
                    "__internal_pivot_map"},
        k \in 1..n}

\* no two elements of a sequence are equal
Distinct(seq) == \A i, j \in 1..Len(seq) : i # j => seq[i] # seq[j]

\* C13 as stated: the internal names stages 1 to 3 have assigned so far
\* (group, pivot-expression and aggregate aliases, list names, map names)
\* are pairwise distinct and all produced by the counters, none taken from
\* the user's aliases, and no two entries of the current stage's select
\* list share an alias.
C13_InternalNamesDistinct ==
    (ValidationOver /\ pc \in {"Stage1", "Stage2", "Stage3"}) =>
        LET names == Aliases(Innermost(select_node).select_list)
                        \o bind_state.internal_pivot_names
                        \o bind_state.internal_map_names
        IN /\ Distinct(names)
           /\ \A i \in 1..Len(names) : names[i] \in CounterNames(Len(names))
           /\ Distinct(Aliases(select_node.select_list))

\* the declaration passes validation
PassesValidation(d) ==
    PassesEarlierChecks(d) /\ EntryCountProduct(d.pivots) < PIVOT_EXPRESSION_LIMIT

\* some enumerated element carries more than one value: every element holds
\* one value per pivot expression of the declaration
CompositeKey(d) ==
    /\ EntryCountProduct(d.pivots) > 0
    /\ Len(Flatten([i \in 1..Len(d.pivots) |-> d.pivots[i].pivot_expressions], 1)) > 1

\* C14 as stated: a declaration that passes validation and enumerates an
\* element of more than one value ends with the internal error of Stage 4;
\* BindPivot never returns a tree for it.
C14_CompositeKeyInternalError ==
    (ValidationOver /\ PassesValidation(decl) /\ CompositeKey(decl)) =>
        /\ pc \notin {"Rewritten", "Bound", "Filtered", "Registered", "Crashed"}
        /\ pc = "Failed" => errors = <<"FIXME multiple pivots">>

\* C15 as stated: when BindUnpivot does not reject the declaration, the
\* entry list is non-empty after the expansion of the star expressions and
\* every entry holds at least as many values as the first, so that
\* entries[0] and every entry.values[v_idx] read is in range.
C15_UnpivotAccessesInRange ==
    (UnpivotOver /\ pc # "Failed") =>
        LET entries == ref.pivots[1].entries
        IN /\ entries # <<>>
           /\ \A i \in 1..Len(entries) : Len(entries[i].values) >= Len(entries[1].values)

\* the digits of x * n, none lost (n below LimbBase)
RECURSIVE ExactTimesFrom(_, _, _, _)
ExactTimesFrom(x, n, i, carry) ==
    IF i > Len(x) THEN (IF carry = 0 THEN <<>> ELSE <<carry>>)
    ELSE LET product == x[i] * n + carry
         IN <<product % LimbBase>> \o ExactTimesFrom(x, n, i + 1, product \div LimbBase)

\* the digits of the mathematical product k1 * ... * kn
RECURSIVE ExactProduct(_, _)
ExactProduct(counts, upto) ==
    IF upto = 0 THEN <<1>>
    ELSE ExactTimesFrom(ExactProduct(counts, upto - 1), counts[upto], 1, 0)

\* two digit sequences denote the same number
SameNumber(x, y) ==
    \A i \in 1..(IF Len(x) > Len(y) THEN Len(x) ELSE Len(y)) :
        (IF i <= Len(x) THEN x[i] ELSE 0) = (IF i <= Len(y) THEN y[i] ELSE 0)

\* what validation throws
ValidationErrors ==
    {"Pivot expression must be an aggregate", "Pivot expression cannot contain subqueries",
     "Pivot expression cannot contain window functions",
     "PIVOT expression cannot contain qualified columns", "Pivot must reference an ENUM type",
     DuplicateError, "PIVOT IN list - inconsistent amount of rows", LimitError}

\* the ceiling check has admitted the declaration
Admitted == ValidationOver /\ ~(pc = "Failed" /\ errors[1] \in ValidationErrors)

\* C16 as stated: whenever the ceiling check admits the declaration,
\* total_pivots equals the mathematical product of the pivot columns' entry
\* counts, and that product is below 10,000.
C16_ProductDoesNotWrap ==
    Admitted =>
        LET counts == EntryCounts(decl.pivots)
            product == ExactProduct(counts, Len(counts))
        IN /\ SameNumber(total_pivots, product)
           /\ ~IdxAtLeast(product, PIVOT_EXPRESSION_LIMIT)

====
